---- MODULE Spec2Model ----
(***************************************************************************)
(* A model of parser.py: the form-field name extractor, the locant         *)
(* normalizer, the CAS registry-number resolver with its one-shot retry,   *)
(* the property fetcher and the presenter of the main flow.                *)
(*                                                                         *)
(* A Python str is a sequence of one-character strings, so that the        *)
(* regular-expression substitutions act on characters as re.sub does.      *)
(* None is the record NoneVal; a str stored next to None is Str(s).        *)
(***************************************************************************)
EXTENDS Integers, Sequences, FiniteSets, TLC

VARIABLES
    pc,             \* position of the run in the flow of the specification
    fields,         \* __main__: labels of the form's text fields
    chemical_names, \* __main__: the list handed to retrieve_all_CASRNs
    normalized,     \* history: the list as the Locant Normalizer produced it
    idx,            \* retrieve_all_CASRNs: index of the for loop (1-based)
    retry,          \* retrieve_all_CASRNs: the retry counter
    chemical,       \* retrieve_all_CASRNs: the loop variable
    casrns,         \* retrieve_all_CASRNs: the identifiers appended so far
    lookups,        \* history: the retrieve_CASRN calls made, in order
    error,          \* the exception that ended the run, "none" if none did
    pidx,           \* __main__: position of the zip loop (1-based)
    fetched,        \* history: the retrieve_properties calls made, in order
    chemical_data,  \* __main__: the Compound Records collected
    stdout,         \* what the run printed, in order
    compound,       \* parse_locants: its argument
    once,           \* parse_locants(compound)
    twice,          \* parse_locants(parse_locants(compound))
    casrn,          \* retrieve_properties: its argument
    response,       \* retrieve_properties: what the detail service answers
    library,        \* retrieve_properties: what the estimation library answers
    properties,     \* retrieve_properties: its result
    asked           \* history: the library functions retrieve_properties called

vars == <<pc, fields, chemical_names, normalized, idx, retry, chemical, casrns,
          lookups, error, pidx, fetched, chemical_data, stdout, compound, once,
          twice, casrn, response, library, properties, asked>>

mainVars == <<fields, chemical_names, normalized, idx, retry, chemical, casrns,
              lookups, error, pidx, fetched, chemical_data, stdout>>
locantVars == <<compound, once, twice>>
propVars == <<casrn, response, library, properties, asked>>

NoneVal == [none |-> TRUE]
Str(s) == [str |-> s]
Float(h) == [float |-> h]
List(l) == [list |-> l]
Dict(d) == [dict |-> d]

----------------------------------------------------------------------------
(* Characters and the character classes of the patterns.                   *)

Digits == {"0", "1", "2", "3", "4", "5", "6", "7", "8", "9"}
Letters ==
    {"a", "b", "c", "d", "e", "f", "g", "h", "i", "j", "k", "l", "m",
     "n", "o", "p", "q", "r", "s", "t", "u", "v", "w", "x", "y", "z",
     "A", "B", "C", "D", "E", "F", "G", "H", "I", "J", "K", "L", "M",
     "N", "O", "P", "Q", "R", "S", "T", "U", "V", "W", "X", "Y", "Z"}

IsDigit(c) == c \in Digits
IsLetter(c) == c \in Letters

Hazards == <<"H", "a", "z", "a", "r", "d", "s">>
hexanes == <<"h", "e", "x", "a", "n", "e", "s">>
hexane == <<"h", "e", "x", "a", "n", "e">>

\* s has the literal lit at position i
MatchAt(s, i, lit) ==
    /\ i + Len(lit) - 1 <= Len(s)
    /\ \A k \in 1..Len(lit) : s[i + k - 1] = lit[k]

\* str.startswith
startswith(s, lit) == MatchAt(s, 1, lit)

\* str.replace(old, new) / re.sub of a literal: occurrences are replaced left
\* to right, each search resuming after the previous occurrence
RECURSIVE ReplaceFrom(_, _, _, _)
ReplaceFrom(s, i, old, new) ==
    IF i > Len(s) THEN <<>>
    ELSE IF MatchAt(s, i, old) THEN new \o ReplaceFrom(s, i + Len(old), old, new)
    ELSE <<s[i]>> \o ReplaceFrom(s, i + 1, old, new)

replace(s, old, new) == ReplaceFrom(s, 1, old, new)

----------------------------------------------------------------------------
(* extract_chemical_names                                                  *)

extract_chemical_names(fs) ==
    LET kept == SelectSeq(fs, LAMBDA field : startswith(field, Hazards))
    IN  [k \in 1..Len(kept) |-> replace(kept[k], Hazards, <<>>)]

----------------------------------------------------------------------------
(* parse_locants: five substitutions, each a left-to-right scan for        *)
(* non-overlapping matches.                                                 *)

\* re.sub(r'(\d)(\d)', r'\1,\2', compound)
RECURSIVE SubDigitDigit(_, _)
SubDigitDigit(s, i) ==
    IF i > Len(s) THEN <<>>
    ELSE IF i < Len(s) /\ IsDigit(s[i]) /\ IsDigit(s[i + 1])
         THEN <<s[i], ",", s[i + 1]>> \o SubDigitDigit(s, i + 2)
    ELSE <<s[i]>> \o SubDigitDigit(s, i + 1)

\* re.sub(r'(\d)([a-zA-Z])|([a-zA-Z])(\d)', r'\1\3-\2\4', compound)
RECURSIVE SubDigitLetter(_, _)
SubDigitLetter(s, i) ==
    IF i > Len(s) THEN <<>>
    ELSE IF /\ i < Len(s)
            /\ \/ IsDigit(s[i]) /\ IsLetter(s[i + 1])
               \/ IsLetter(s[i]) /\ IsDigit(s[i + 1])
         THEN <<s[i], "-", s[i + 1]>> \o SubDigitLetter(s, i + 2)
    ELSE <<s[i]>> \o SubDigitLetter(s, i + 1)

\* re.sub(r'(\d) ([a-zA-Z])', r'\1-\2', compound)
RECURSIVE SubDigitSpaceLetter(_, _)
SubDigitSpaceLetter(s, i) ==
    IF i > Len(s) THEN <<>>
    ELSE IF i + 2 <= Len(s) /\ IsDigit(s[i]) /\ s[i + 1] = " " /\ IsLetter(s[i + 2])
         THEN <<s[i], "-", s[i + 2]>> \o SubDigitSpaceLetter(s, i + 3)
    ELSE <<s[i]>> \o SubDigitSpaceLetter(s, i + 1)

\* the number of "x" from position i on (the greedy x+ of the group (hex+))
RECURSIVE RunOfX(_, _)
RunOfX(s, i) == IF i <= Len(s) /\ s[i] = "x" THEN 1 + RunOfX(s, i + 1) ELSE 0

\* re.sub(r'([a-zA-Z]) (hex+)', r'\1\2', compound)
RECURSIVE SubSpaceHex(_, _)
SubSpaceHex(s, i) ==
    IF i > Len(s) THEN <<>>
    ELSE IF IsLetter(s[i]) /\ MatchAt(s, i + 1, <<" ", "h", "e", "x">>)
         THEN LET n == RunOfX(s, i + 4)
              IN  <<s[i]>> \o SubSeq(s, i + 2, i + 3 + n) \o SubSpaceHex(s, i + 4 + n)
    ELSE <<s[i]>> \o SubSpaceHex(s, i + 1)

parse_locants(c) ==
    LET s1 == SubDigitDigit(c, 1)
        s2 == SubDigitLetter(s1, 1)
        s3 == SubDigitSpaceLetter(s2, 1)
        s4 == SubSpaceHex(s3, 1)
    IN  replace(s4, hexanes, hexane)

----------------------------------------------------------------------------
(* What the remote services answer.  requests.get either raises or returns *)
(* a response with a status and a body; the body is JSON or it is not.     *)

NotJson == [notjson |-> TRUE]
Missing == [missing |-> TRUE]

Return(v) == [tag |-> "return", value |-> v]
Raise(e) == [tag |-> "raise", exc |-> e]

\* the exceptions of the run that an "except ValueError" clause catches:
\* ValueError itself and the JSON decoding error of response.json()
ValueErrors == {"ValueError", "JSONDecodeError"}
\* the exceptions that "except requests.exceptions.RequestException" catches
RequestExceptions == {"ConnectionError", "Timeout", "HTTPError", "JSONDecodeError"}

\* the exception (or "none") that requests.get(url), raise_for_status() and
\* response.json() end with
RequestFailure(r) ==
    IF r.kind = "raises" THEN r.exc
    ELSE IF r.status >= 400 THEN "HTTPError"
    ELSE IF r.body = NotJson THEN "JSONDecodeError"
    ELSE "none"

----------------------------------------------------------------------------
(* retrieve_CASRN                                                           *)

retrieve_CASRN(r) ==
    LET raised ==
            IF RequestFailure(r) # "none" THEN RequestFailure(r)
            ELSE IF r.body.count > 0 THEN "none"
            ELSE "ValueError"
    IN  IF raised = "none" THEN Return(Str(r.body.results[1].rn))
        ELSE IF raised \in ValueErrors THEN Return(NoneVal)
        ELSE Raise(raised)

----------------------------------------------------------------------------
(* retrieve_all_CASRNs                                                      *)

LocantChars == Digits \cup {","}

\* the length of the run of digits of s from position i on
RECURSIVE RunOfDigits(_, _)
RunOfDigits(s, i) ==
    IF i <= Len(s) /\ IsDigit(s[i]) THEN 1 + RunOfDigits(s, i + 1) ELSE 0

\* the length of the run of digits and commas that s starts with from i on
RECURSIVE RunOfLocants(_, _)
RunOfLocants(s, i) ==
    IF i <= Len(s) /\ s[i] \in LocantChars THEN 1 + RunOfLocants(s, i + 1) ELSE 0

\* StripLocantPrefix with the pattern ^\d+- : the commas are not stripped
StripDigitsOnly(s) ==
    LET n == RunOfDigits(s, 1)
    IN  IF n >= 1 /\ n < Len(s) /\ s[n + 1] = "-"
        THEN SubSeq(s, n + 2, Len(s))
        ELSE s

\* re.sub(r"^[\d,]+-", "", chemical)
StripLocantPrefix(s) ==
    LET n == RunOfLocants(s, 1)
    IN  IF n >= 1 /\ n < Len(s) /\ s[n + 1] = "-"
        THEN SubSeq(s, n + 2, Len(s))
        ELSE s

\* AfterLookup without the raise: a name that fails both lookups is skipped
AfterLookupSkip(st, ret) ==
    LET next == st.idx + 1
        more == next <= Len(st.chemicals)
        taken == [st EXCEPT !.idx = next,
                            !.retry = IF more THEN 1 ELSE st.retry,
                            !.chemical = IF more THEN st.chemicals[next]
                                         ELSE st.chemical]
    IN  IF ret # NoneVal THEN [taken EXCEPT !.casrns = Append(st.casrns, ret)]
        ELSE IF st.retry > 0 THEN
            [st EXCEPT !.chemical = StripLocantPrefix(st.chemical),
                       !.chemicals = [st.chemicals EXCEPT ![st.idx] =
                                          StripLocantPrefix(st.chemical)],
                       !.retry = st.retry - 1]
        ELSE taken

\* AfterLookup without the assignment chemicals[idx] = chemical
AfterLookupNoWriteBack(st, ret) ==
    IF ret # NoneVal THEN
        LET next == st.idx + 1
            more == next <= Len(st.chemicals)
        IN  [st EXCEPT !.casrns = Append(st.casrns, ret),
                       !.idx = next,
                       !.retry = IF more THEN 1 ELSE st.retry,
                       !.chemical = IF more THEN st.chemicals[next] ELSE st.chemical]
    ELSE IF st.retry > 0 THEN
        [st EXCEPT !.chemical = StripLocantPrefix(st.chemical),
                   !.retry = st.retry - 1]
    ELSE [st EXCEPT !.raised = "ValueError"]

\* The body of the while loop after the call of retrieve_CASRN returned ret.
\* st holds the function's variables; raised is the exception the body ends
\* the function with.  After the break the for loop takes the next element.
AfterLookup(st, ret) ==
    IF ret # NoneVal THEN
        LET next == st.idx + 1
            more == next <= Len(st.chemicals)
        IN  [st EXCEPT !.casrns = Append(st.casrns, ret),
                       !.idx = next,
                       !.retry = IF more THEN 1 ELSE st.retry,
                       !.chemical = IF more THEN st.chemicals[next] ELSE st.chemical]
    ELSE IF st.retry > 0 THEN
        [st EXCEPT !.chemical = StripLocantPrefix(st.chemical),
                   !.chemicals = [st.chemicals EXCEPT ![st.idx] =
                                      StripLocantPrefix(st.chemical)],
                   !.retry = st.retry - 1]
    ELSE [st EXCEPT !.raised = "ValueError"]

----------------------------------------------------------------------------
(* retrieve_properties                                                      *)

\* A dict is the sequence of its items in insertion order.
DictHas(d, k) == \E i \in 1..Len(d) : d[i].key = k
DictGet(d, k) == d[CHOOSE i \in 1..Len(d) : d[i].key = k].value
DictSet(d, k, v) ==
    IF DictHas(d, k)
    THEN [i \in 1..Len(d) |-> IF d[i].key = k THEN [key |-> k, value |-> v] ELSE d[i]]
    ELSE Append(d, [key |-> k, value |-> v])
DictKeys(d) == {d[i].key : i \in 1..Len(d)}

\* the length of the match of \d*\.?\d+ that starts at i, 0 if there is none:
\* all the digits, the point and the digits after it when there are some,
\* and otherwise (after backtracking) the digits alone
UnsignedLenAt(s, i) ==
    LET n == RunOfDigits(s, i)
        m == IF i + n <= Len(s) /\ s[i + n] = "." THEN RunOfDigits(s, i + n + 1) ELSE 0
    IN  IF m >= 1 THEN n + 1 + m ELSE n

\* the length of the match of [-]?\d*\.?\d+ that starts at i, 0 if there is none
NumberLenAt(s, i) ==
    IF s[i] = "-"
    THEN IF i < Len(s) /\ UnsignedLenAt(s, i + 1) > 0
         THEN 1 + UnsignedLenAt(s, i + 1)
         ELSE 0
    ELSE UnsignedLenAt(s, i)

\* re.search(r'[-]?\d*\.?\d+', text): the leftmost match, NoneVal if none
SearchNumber(text) ==
    IF \E i \in 1..Len(text) : NumberLenAt(text, i) > 0
    THEN LET i == CHOOSE j \in 1..Len(text) :
                      /\ NumberLenAt(text, j) > 0
                      /\ \A k \in 1..(j - 1) : NumberLenAt(text, k) = 0
         IN  Str(SubSeq(text, i, i + NumberLenAt(text, i) - 1))
    ELSE NoneVal

\* The estimation library answers in hundredths: 37315 is 373.15.
ZeroCelsius == 27315

DigitChar(d) == <<"0", "1", "2", "3", "4", "5", "6", "7", "8", "9">>[d + 1]

RECURSIVE NatChars(_)
NatChars(n) == IF n < 10 THEN <<DigitChar(n)>> ELSE NatChars(n \div 10) \o <<DigitChar(n % 10)>>

\* str(x) of the float x = h / 100: the shortest decimal numeral, with at
\* least one digit after the point
FloatStr(h) ==
    LET a == IF h < 0 THEN -h ELSE h
        f == a % 100
    IN  (IF h < 0 THEN <<"-">> ELSE <<>>)
        \o NatChars(a \div 100) \o <<".">>
        \o (IF f % 10 = 0 THEN <<DigitChar(f \div 10)>>
            ELSE <<DigitChar(f \div 10), DigitChar(f % 10)>>)

\* the for loop over experimental_properties, from entry i on: the dict it
\* leaves, or the exception it ends with (re.search(...) is None and has no
\* group())
RECURSIVE FillExperimental(_, _, _)
FillExperimental(data, eps, i) ==
    IF i > Len(eps) THEN [exc |-> "none", data |-> data]
    ELSE IF SearchNumber(eps[i].property) = NoneVal
         THEN [exc |-> "AttributeError", data |-> data]
    ELSE FillExperimental(DictSet(data, eps[i].name, SearchNumber(eps[i].property)),
                          eps, i + 1)

\* CelsiusOrNone storing str(None) where the library has no value
CelsiusOrNoneText(kelvin) ==
    IF kelvin = NoneVal THEN Str(<<"N", "o", "n", "e">>)
    ELSE Str(FloatStr(kelvin.float - ZeroCelsius))

\* str(round(T(casrn) - 273.15, 3)) under "except TypeError": the library's
\* None makes the subtraction raise TypeError
CelsiusOrNone(kelvin) ==
    IF kelvin = NoneVal THEN NoneVal ELSE Str(FloatStr(kelvin.float - ZeroCelsius))

\* lines 84 to 95: the keys that the experimental properties did not supply
FillMissing(data, lib) ==
    LET d1 == IF DictHas(data, "Boiling Point") THEN data
              ELSE DictSet(data, "Boiling Point", CelsiusOrNone(lib.Tb))
        d2 == IF DictHas(d1, "Melting Point") THEN d1
              ELSE DictSet(d1, "Melting Point", CelsiusOrNone(lib.Tm))
    IN  IF DictHas(d2, "Density") THEN d2 ELSE DictSet(d2, "Density", NoneVal)

\* MW(casrn) raises for an identifier the library cannot look up
LibraryRaises == [raises |-> TRUE]

\* MolecularWeight with the branches swapped: the library's value is taken
\* whenever the response has the field populated
MolecularWeightLibraryFirst(body, lib) ==
    IF body.molecularMass = Missing
    THEN [exc |-> "KeyError", data |-> <<>>, asked |-> <<>>]
    ELSE IF body.molecularMass \in {NoneVal, Str(<<>>)}
         THEN [exc |-> "none", asked |-> <<>>,
               data |-> DictSet(<<>>, "Molecular Weight", body.molecularMass)]
    ELSE IF lib.MW = LibraryRaises
         THEN [exc |-> "ValueError", data |-> <<>>, asked |-> <<"MW">>]
    ELSE [exc |-> "none", asked |-> <<"MW">>,
          data |-> DictSet(<<>>, "Molecular Weight", Str(FloatStr(lib.MW.float)))]

\* lines 75 to 79: the dict holding the molecular weight, or the exception;
\* asked tells whether MW(casrn) was called
MolecularWeight(body, lib) ==
    IF body.molecularMass = Missing
    THEN [exc |-> "KeyError", data |-> <<>>, asked |-> <<>>]
    ELSE IF body.molecularMass \notin {NoneVal, Str(<<>>)}
         THEN [exc |-> "none", asked |-> <<>>,
               data |-> DictSet(<<>>, "Molecular Weight", body.molecularMass)]
    ELSE IF lib.MW = LibraryRaises
         THEN [exc |-> "ValueError", data |-> <<>>, asked |-> <<"MW">>]
    ELSE [exc |-> "none", asked |-> <<"MW">>,
          data |-> DictSet(<<>>, "Molecular Weight", Str(FloatStr(lib.MW.float)))]

\* the message of the except clause that catches exc
Diagnostic(exc) ==
    IF exc \in RequestExceptions THEN "Error fetching data from API"
    ELSE IF exc = "KeyError" THEN "KeyError - Missing expected data in API response."
    ELSE "Unexpected Error"

\* value is the dict returned, or NoneVal; printed is what the call prints;
\* asked lists the library functions the call consulted.
\* lib maps an identifier to what MW, Tb and Tm answer for it.
retrieve_properties(c, r, lib) ==
    LET mw == MolecularWeight(r.body, lib[c])
        ex == FillExperimental(mw.data, r.body.experimentalProperties.list, 1)
        exc == IF RequestFailure(r) # "none" THEN RequestFailure(r)
               ELSE IF mw.exc # "none" THEN mw.exc
               ELSE IF r.body.experimentalProperties = Missing THEN "KeyError"
               ELSE ex.exc
        calls ==
            (IF RequestFailure(r) = "none" THEN mw.asked ELSE <<>>)
            \o (IF exc = "none" /\ ~DictHas(ex.data, "Boiling Point")
                THEN <<"Tb">> ELSE <<>>)
            \o (IF exc = "none" /\ ~DictHas(ex.data, "Melting Point")
                THEN <<"Tm">> ELSE <<>>)
    IN  IF exc = "none"
        THEN [value |-> Dict(FillMissing(ex.data, lib[c])), printed |-> <<>>,
              asked |-> calls]
        ELSE [value |-> NoneVal, printed |-> <<Diagnostic(exc)>>, asked |-> calls]

----------------------------------------------------------------------------
(* Bounded input sets.                                                      *)

MaxLabelPieces == 3
MaxLabels == 2
MaxNamePieces == 3
MaxEntries == 2
MaxFields == 2

\* all concatenations of at most n members of pieces
RECURSIVE Concats(_, _)
Concats(pieces, n) ==
    IF n = 0 THEN {<<>>}
    ELSE LET shorter == Concats(pieces, n - 1)
         IN  shorter \cup {s \o p : s \in shorter, p \in pieces}

\* all sequences of at most n members of S
RECURSIVE SeqsUpTo(_, _)
SeqsUpTo(S, n) ==
    IF n = 0 THEN {<<>>}
    ELSE LET shorter == SeqsUpTo(S, n - 1)
         IN  shorter \cup {Append(s, x) : s \in shorter, x \in S}

LabelPieces == {Hazards, <<"H", "a", "z">>, <<"a", "r", "d", "s">>, <<"1">>, <<"b">>}
Labels == Concats(LabelPieces, MaxLabelPieces)

NamePieces ==
    {<<"1">>, <<"2">>, <<"a">>, <<" ">>, <<"-">>, <<"h", "e", "x">>, <<"x">>,
     hexanes, <<"s">>}
RawNames == Concats(NamePieces, MaxNamePieces)

NoMain ==
    /\ fields = <<>> /\ chemical_names = <<>> /\ normalized = <<>>
    /\ idx = 0 /\ retry = 0 /\ chemical = <<>> /\ casrns = <<>>
    /\ lookups = <<>> /\ error = "none" /\ pidx = 0 /\ fetched = <<>>
    /\ chemical_data = <<>> /\ stdout = <<>>
NoLocants == compound = <<>> /\ once = <<>> /\ twice = <<>>
NoProps ==
    /\ casrn = "" /\ response = NoneVal /\ library = NoneVal
    /\ properties = NoneVal /\ asked = <<>>

----------------------------------------------------------------------------
(* The Name Extractor on its own: one call of extract_chemical_names.      *)

InitExtract ==
    /\ pc = "fields"
    /\ fields \in SeqsUpTo(Labels, MaxLabels)
    /\ chemical_names = <<>> /\ normalized = <<>>
    /\ idx = 0 /\ retry = 0 /\ chemical = <<>> /\ casrns = <<>>
    /\ lookups = <<>> /\ error = "none" /\ pidx = 0 /\ fetched = <<>>
    /\ chemical_data = <<>> /\ stdout = <<>>
    /\ NoLocants /\ NoProps

ExtractNames ==
    /\ pc = "fields"
    /\ chemical_names' = extract_chemical_names(fields)
    /\ pc' = "names"
    /\ UNCHANGED <<fields, normalized, idx, retry, chemical, casrns, lookups,
                   error, pidx, fetched, chemical_data, stdout>>
    /\ UNCHANGED <<locantVars, propVars>>

NextExtract == ExtractNames
SpecExtract == InitExtract /\ [][NextExtract]_vars

----------------------------------------------------------------------------
(* The Locant Normalizer on its own: parse_locants, then parse_locants on  *)
(* its own output.                                                          *)

InitLocants ==
    /\ pc = "raw"
    /\ compound \in RawNames
    /\ once = <<>> /\ twice = <<>>
    /\ NoMain /\ NoProps

Normalize ==
    /\ pc = "raw"
    /\ once' = parse_locants(compound)
    /\ pc' = "once"
    /\ UNCHANGED <<compound, twice, mainVars, propVars>>

NormalizeAgain ==
    /\ pc = "once"
    /\ twice' = parse_locants(once)
    /\ pc' = "twice"
    /\ UNCHANGED <<compound, once, mainVars, propVars>>

NextLocants == Normalize \/ NormalizeAgain
SpecLocants == InitLocants /\ [][NextLocants]_vars

----------------------------------------------------------------------------
(* The Property Fetcher on its own: one call of retrieve_properties.       *)

PropertyNames ==
    {"Boiling Point", "Melting Point", "Density", "Molecular Weight", "Flash Point"}
PropertyTexts == {<<"-", "7", ".", "5", " ", "C">>, <<"n", "/", "a">>}
Entries == [name : PropertyNames, property : PropertyTexts]

MassTexts == {Missing, NoneVal, Str(<<>>), Str(<<"1", "8", ".", "0", "2">>)}
DetailBodies ==
    [molecularMass : MassTexts,
     experimentalProperties :
         {Missing} \cup {List(l) : l \in SeqsUpTo(Entries, MaxEntries)}]
DetailResponses ==
    {[kind |-> "raises", exc |-> e] : e \in {"ConnectionError", "Timeout"}}
    \cup {[kind |-> "response", status |-> 404, body |-> NotJson],
          [kind |-> "response", status |-> 200, body |-> NotJson]}
    \cup {[kind |-> "response", status |-> 200, body |-> b] : b \in DetailBodies}

LibraryAnswers ==
    [MW : {Float(1802), LibraryRaises},
     Tb : {Float(37315), NoneVal},
     Tm : {Float(25315), NoneVal}]

InitProps ==
    /\ pc = "call"
    /\ casrn = "7732-18-5"
    /\ response \in DetailResponses
    /\ library \in [{casrn} -> LibraryAnswers]
    /\ properties = NoneVal
    /\ asked = <<>>
    /\ NoMain /\ NoLocants

Fetch ==
    /\ pc = "call"
    /\ LET got == retrieve_properties(casrn, response, library)
       IN  /\ properties' = got.value
           /\ asked' = got.asked
           /\ stdout' = stdout \o got.printed
    /\ pc' = "returned"
    /\ UNCHANGED <<fields, chemical_names, normalized, idx, retry, chemical,
                   casrns, lookups, error, pidx, fetched, chemical_data>>
    /\ UNCHANGED <<casrn, response, library, locantVars>>

NextProps == Fetch
SpecProps == InitProps /\ [][NextProps]_vars

----------------------------------------------------------------------------
(* The main flow: the form is read and its names extracted and normalized, *)
(* every name is resolved, the names and identifiers are printed, the      *)
(* properties of every identifier are fetched and the report is printed.   *)

MainLabels ==
    {<<"N", "a", "m", "e">>,
     Hazards \o <<"1", "2", "b">>,
     Hazards \o <<"b">>,
     Hazards \o <<"3", " ">> \o hexanes}
\* the labels are the keys of the dict of get_form_text_fields: no label twice
FieldLists ==
    {fs \in SeqsUpTo(MainLabels, MaxFields) :
        \A i, j \in 1..Len(fs) : i # j => fs[i] # fs[j]}

RNs == {"50-00-0", "64-17-5"}
SearchResponses ==
    {[kind |-> "raises", exc |-> e] : e \in {"ConnectionError", "Timeout"}}
    \cup {[kind |-> "response", status |-> 404, body |-> NotJson],
          [kind |-> "response", status |-> 200, body |-> NotJson],
          [kind |-> "response", status |-> 200,
           body |-> [count |-> 0, results |-> <<>>]]}
    \cup {[kind |-> "response", status |-> 200,
           body |-> [count |-> 1, results |-> <<[rn |-> r]>>]] : r \in RNs}

MainDetailResponses ==
    {[kind |-> "raises", exc |-> "ConnectionError"],
     [kind |-> "response", status |-> 200,
      body |-> [molecularMass |-> Missing, experimentalProperties |-> List(<<>>)]],
     [kind |-> "response", status |-> 200,
      body |-> [molecularMass |-> Str(<<"1", "8", ".", "0", "2">>),
                experimentalProperties |-> List(<<>>)]],
     [kind |-> "response", status |-> 200,
      body |-> [molecularMass |-> Str(<<"1", "8", ".", "0", "2">>),
                experimentalProperties |->
                    List(<<[name |-> "Density", property |-> <<"n", "/", "a">>]>>)]],
     [kind |-> "response", status |-> 200,
      body |-> [molecularMass |-> Str(<<>>),
                experimentalProperties |->
                    List(<<[name |-> "Boiling Point",
                            property |-> <<"-", "7", ".", "5", " ", "C">>]>>)]]}

MainLibrary ==
    [c \in RNs |->
        IF c = "50-00-0"
        THEN [MW |-> Float(3003), Tb |-> Float(25415), Tm |-> NoneVal]
        ELSE [MW |-> Float(4607), Tb |-> NoneVal, Tm |-> Float(15915)]]

Init ==
    /\ pc = "start"
    /\ fields \in FieldLists
    /\ chemical_names = <<>> /\ normalized = <<>>
    /\ idx = 0 /\ retry = 0 /\ chemical = <<>> /\ casrns = <<>>
    /\ lookups = <<>> /\ error = "none" /\ pidx = 0 /\ fetched = <<>>
    /\ chemical_data = <<>> /\ stdout = <<>>
    /\ NoLocants /\ NoProps

\* lines 110 and 111, and the entry into retrieve_all_CASRNs: the for loop
\* takes its first element
ReadForm ==
    /\ pc = "start"
    /\ LET extracted == extract_chemical_names(fields)
           names == [k \in 1..Len(extracted) |-> parse_locants(extracted[k])]
       IN  /\ chemical_names' = names
           /\ normalized' = names
           /\ chemical' = IF Len(names) > 0 THEN names[1] ELSE chemical
           /\ retry' = IF Len(names) > 0 THEN 1 ELSE retry
    /\ idx' = 1
    /\ casrns' = <<>>
    /\ pc' = "resolve"
    /\ UNCHANGED <<fields, lookups, error, pidx, fetched, chemical_data, stdout>>
    /\ UNCHANGED <<locantVars, propVars>>

\* one pass of the while loop of retrieve_all_CASRNs: the call of
\* retrieve_CASRN and what the loop body does with what it returns; an
\* exception that leaves the function ends the run
Lookup ==
    /\ pc = "resolve"
    /\ idx <= Len(chemical_names)
    /\ \E r \in SearchResponses :
          LET out == retrieve_CASRN(r)
              st == AfterLookup([chemicals |-> chemical_names, idx |-> idx,
                                 retry |-> retry, chemical |-> chemical,
                                 casrns |-> casrns, raised |-> "none"],
                                out.value)
          IN  /\ lookups' = Append(lookups, [idx |-> idx, q |-> chemical,
                                             response |-> r, out |-> out])
              /\ IF out.tag = "raise"
                 THEN /\ error' = out.exc
                      /\ pc' = "aborted"
                      /\ UNCHANGED <<chemical_names, idx, retry, chemical, casrns>>
                 ELSE /\ chemical_names' = st.chemicals
                      /\ idx' = st.idx
                      /\ retry' = st.retry
                      /\ chemical' = st.chemical
                      /\ casrns' = st.casrns
                      /\ error' = st.raised
                      /\ pc' = IF st.raised = "none" THEN "resolve" ELSE "aborted"
    /\ UNCHANGED <<fields, normalized, pidx, fetched, chemical_data, stdout>>
    /\ UNCHANGED <<locantVars, propVars>>

\* retrieve_all_CASRNs returns; lines 113 to 115
PrintLists ==
    /\ pc = "resolve"
    /\ idx > Len(chemical_names)
    /\ stdout' = stdout \o <<[kind |-> "names", items |-> chemical_names],
                             [kind |-> "casrns", items |-> casrns]>>
    /\ chemical_data' = <<>>
    /\ pidx' = 1
    /\ pc' = "properties"
    /\ UNCHANGED <<fields, chemical_names, normalized, idx, retry, chemical,
                   casrns, lookups, error, fetched>>
    /\ UNCHANGED <<locantVars, propVars>>

Min(a, b) == IF a <= b THEN a ELSE b

\* the number of pairs of zip(chemical_names, chemical_CASRNs)
ZipLen == Min(Len(chemical_names), Len(casrns))

\* CollectRecord without the test "properties is not None"
CollectRecordUnchecked(data, name, props) ==
    Append(data, [name |-> name,
                  info |-> IF props # NoneVal THEN props.dict ELSE <<>>])

\* lines 118 and 119
CollectRecord(data, name, props) ==
    IF props # NoneVal
    THEN Append(data, [name |-> name, info |-> props.dict])
    ELSE data

\* one pass of the for loop of lines 116 to 119
FetchProperties ==
    /\ pc = "properties"
    /\ pidx <= ZipLen
    /\ \E r \in MainDetailResponses :
          LET got == retrieve_properties(casrns[pidx].str, r, MainLibrary)
          IN  /\ fetched' = Append(fetched, [name |-> chemical_names[pidx],
                                             casrn |-> casrns[pidx],
                                             response |-> r,
                                             properties |-> got.value])
              /\ stdout' = stdout \o [k \in 1..Len(got.printed) |->
                                         [kind |-> "diagnostic", text |-> got.printed[k]]]
              /\ chemical_data' =
                     CollectRecord(chemical_data, chemical_names[pidx], got.value)
    /\ pidx' = pidx + 1
    /\ UNCHANGED <<pc, fields, chemical_names, normalized, idx, retry, chemical,
                   casrns, lookups, error>>
    /\ UNCHANGED <<locantVars, propVars>>

\* what lines 120 to 123 print for the records from the i-th on
RECURSIVE Report(_, _)
Report(data, i) ==
    IF i > Len(data) THEN <<>>
    ELSE <<[kind |-> "header", name |-> data[i].name]>>
         \o [k \in 1..Len(data[i].info) |->
                [kind |-> "property", key |-> data[i].info[k].key,
                 value |-> data[i].info[k].value]]
         \o Report(data, i + 1)

\* lines 120 to 123
Present ==
    /\ pc = "properties"
    /\ pidx > ZipLen
    /\ stdout' = stdout \o Report(chemical_data, 1)
    /\ pc' = "done"
    /\ UNCHANGED <<fields, chemical_names, normalized, idx, retry, chemical,
                   casrns, lookups, error, pidx, fetched, chemical_data>>
    /\ UNCHANGED <<locantVars, propVars>>

Next == ReadForm \/ Lookup \/ PrintLists \/ FetchProperties \/ Present
Spec == Init /\ [][Next]_vars

----------------------------------------------------------------------------
(* Claims about the Name Extractor and the Locant Normalizer.              *)

\* the labels of fs that start with "Hazards", in order
HazardLabels(fs) == SelectSeq(fs, LAMBDA field : startswith(field, Hazards))

\* C6: extract_chemical_names returns, in input order, one entry per label that
\* starts with "Hazards", each entry being that label without its first seven
\* characters and otherwise unaltered.
C6_PrefixStripOnly ==
    pc = "names" =>
        /\ Len(chemical_names) = Len(HazardLabels(fields))
        /\ \A k \in 1..Len(chemical_names) :
              chemical_names[k] =
                  SubSeq(HazardLabels(fields)[k], Len(Hazards) + 1,
                         Len(HazardLabels(fields)[k]))

NoAdjacentDigits(s) == \A i \in 1..(Len(s) - 1) : ~(IsDigit(s[i]) /\ IsDigit(s[i + 1]))

\* C10: the output of parse_locants has no two digits next to each other, and
\* parse_locants applied to that output leaves it unchanged.
C10_AllDigitPairsSeparated ==
    /\ pc \in {"once", "twice"} => NoAdjacentDigits(once)
    /\ pc = "twice" => twice = once

----------------------------------------------------------------------------
(* Claims about the Identifier Resolver and the main flow.                 *)

\* the retrieve_CASRN calls made for the name at index i, in order
LookupsFor(i) == SelectSeq(lookups, LAMBDA l : l.idx = i)

\* the request of a lookup failed at the request level: connection failure,
\* timeout or HTTP error status
RequestLevelErrors == {"ConnectionError", "Timeout", "HTTPError"}
ZeroResults(r) == RequestFailure(r) = "none" /\ r.body.count = 0

\* C1: a lookup that ends with zero results or with a request-level error
\* returns the absent value, and no request-level error leaves
\* retrieve_CASRN to end the run.
C1_RequestErrorsReturnNone ==
    /\ \A k \in 1..Len(lookups) :
          \/ ZeroResults(lookups[k].response)
          \/ RequestFailure(lookups[k].response) \in RequestLevelErrors
          => lookups[k].out = Return(NoneVal)
    /\ error \notin RequestLevelErrors

\* both lookups made for some name returned no identifier
Exhausted ==
    \E i \in 1..Len(chemical_names) :
        /\ Len(LookupsFor(i)) = 2
        /\ LookupsFor(i)[1].out = Return(NoneVal)
        /\ LookupsFor(i)[2].out = Return(NoneVal)

RecordLines == {k \in 1..Len(stdout) : stdout[k].kind \in {"header", "property"}}

IsStripOf(q1, q2) ==
    LET ends == {k \in 2..Len(q1) :
                    /\ q1[k] = "-"
                    /\ \A j \in 1..(k - 1) : q1[j] \in LocantChars}
    IN  IF ends = {} THEN q2 = q1
        ELSE \E k \in ends : q2 = SubSeq(q1, k + 1, Len(q1))

\* C3: at most two lookups are made per name; the first asks for the name as
\* normalized; when it returns an identifier that identifier is appended and
\* no second lookup follows; when it returns none, one more lookup follows,
\* for the name without its leading digits/commas-and-hyphen prefix.
C3_AtMostOneRetry ==
    \A i \in 1..Len(chemical_names) :
        LET L == LookupsFor(i)
        IN  /\ Len(L) <= 2
            /\ Len(L) >= 1 => L[1].q = normalized[i]
            /\ (Len(L) >= 1 /\ L[1].out.tag = "return" /\ L[1].out.value # NoneVal)
                   => /\ Len(L) = 1
                      /\ Len(casrns) >= i
                      /\ casrns[i] = L[1].out.value
            /\ (Len(L) >= 1 /\ L[1].out = Return(NoneVal)
                    /\ (pc # "resolve" \/ idx # i))
                   => Len(L) = 2
            /\ Len(L) = 2
                   => /\ L[1].out = Return(NoneVal)
                      /\ IsStripOf(L[1].q, L[2].q)

C3_Witness ==
    \E i \in 1..Len(chemical_names) :
        /\ Len(LookupsFor(i)) = 2
        /\ LookupsFor(i)[2].q # LookupsFor(i)[1].q
        /\ LookupsFor(i)[2].out.tag = "return"
        /\ LookupsFor(i)[2].out.value # NoneVal
        /\ pc = "done"

\* the response makes retrieve_properties fail for the identifier c: the
\* request fails, an expected key is missing, a property text holds no
\* number, or the molecular mass is empty and the library has none either
FetchFails(r, c) ==
    \/ RequestFailure(r) # "none"
    \/ r.body.molecularMass = Missing
    \/ r.body.experimentalProperties = Missing
    \/ \E k \in 1..Len(r.body.experimentalProperties.list) :
           SearchNumber(r.body.experimentalProperties.list[k].property) = NoneVal
    \/ /\ r.body.molecularMass \in {NoneVal, Str(<<>>)}
       /\ MainLibrary[c].MW = LibraryRaises

Succeeded == SelectSeq(fetched, LAMBDA f : f.properties # NoneVal)
Headers == SelectSeq(stdout, LAMBDA l : l.kind = "header")

\* C4: a failing fetch returns no data; the compound is left out and the loop
\* goes on, so the records collected are the pairs whose fetch succeeded, in
\* input order; every identifier, also one whose fetch fails, is in the
\* printed identifier list; the report has one header per succeeded fetch.
C4_FetchFailureSkipsOne ==
    /\ \A k \in 1..Len(fetched) :
          /\ fetched[k].name = chemical_names[k]
          /\ fetched[k].casrn = casrns[k]
          /\ FetchFails(fetched[k].response, fetched[k].casrn.str)
                 <=> fetched[k].properties = NoneVal
    /\ pc \in {"properties", "done"} =>
          /\ Len(chemical_data) = Len(Succeeded)
          /\ \A k \in 1..Len(Succeeded) :
                /\ chemical_data[k].name = Succeeded[k].name
                /\ chemical_data[k].info = Succeeded[k].properties.dict
          /\ stdout[2] = [kind |-> "casrns", items |-> casrns]
    /\ pc = "done" =>
          /\ Len(fetched) = Len(casrns)
          /\ Len(Headers) = Len(Succeeded)
          /\ \A k \in 1..Len(Headers) : Headers[k].name = Succeeded[k].name

C4_Witness ==
    /\ pc = "done"
    /\ Len(fetched) = 2
    /\ fetched[1].properties = NoneVal
    /\ fetched[2].properties # NoneVal
    /\ Len(chemical_data) = 1
    /\ chemical_data[1].name = chemical_names[2]
    /\ fetched[1].casrn \in {stdout[2].items[k] : k \in 1..Len(stdout[2].items)}

\* C5: after the Locant Normalizer produced the list, no element of it
\* changes.
C5_NamesFixedAfterNormalizer ==
    pc # "start" => chemical_names = normalized

\* C5, amended: after the normalizer only the retry of retrieve_all_CASRNs
\* changes the list: the element whose first lookup returned no identifier
\* becomes that name without its leading locant prefix, every other element
\* stays as normalized, and the names printed are the list so changed.
C5_OnlyRetryRewritesName ==
    pc # "start" =>
        /\ Len(chemical_names) = Len(normalized)
        /\ \A i \in 1..Len(normalized) :
              IF Len(LookupsFor(i)) >= 1 /\ LookupsFor(i)[1].out = Return(NoneVal)
              THEN IsStripOf(normalized[i], chemical_names[i])
              ELSE chemical_names[i] = normalized[i]
        /\ pc \in {"properties", "done"} =>
              stdout[1] = [kind |-> "names", items |-> chemical_names]
        /\ \A k \in 1..Len(Headers) :
              \E i \in 1..Len(chemical_names) : Headers[k].name = chemical_names[i]

C5_Witness ==
    /\ pc = "done"
    /\ \E i \in 1..Len(normalized) :
          /\ chemical_names[i] # normalized[i]
          /\ \E k \in 1..Len(Headers) : Headers[k].name = chemical_names[i]

\* C7: when property fetching begins the two lists have the same length and
\* identifier i is what the last, successful lookup for name i returned; the
\* pairs handed to retrieve_properties are (name k, identifier k).
C7_ListsAligned ==
    pc \in {"properties", "done"} =>
        /\ Len(casrns) = Len(chemical_names)
        /\ ZipLen = Len(chemical_names)
        /\ \A i \in 1..Len(chemical_names) :
              LET L == LookupsFor(i)
              IN  /\ Len(L) >= 1
                  /\ casrns[i] # NoneVal
                  /\ L[Len(L)].out = Return(casrns[i])
                  /\ L[Len(L)].q = chemical_names[i]
        /\ \A k \in 1..Len(fetched) :
              /\ fetched[k].name = chemical_names[k]
              /\ fetched[k].casrn = casrns[k]

C7_Witness ==
    /\ pc = "properties"
    /\ Len(casrns) = 2
    /\ casrns[1] # casrns[2]
    /\ Len(fetched) = 2

----------------------------------------------------------------------------
(* Claims about the Property Fetcher.                                      *)

Answered == pc = "returned" /\ RequestFailure(response) = "none"
Populated ==
    /\ Answered
    /\ response.body.molecularMass \notin {Missing, NoneVal, Str(<<>>)}
Experimental ==
    IF Answered /\ response.body.experimentalProperties # Missing
    THEN response.body.experimentalProperties.list
    ELSE <<>>
EntriesNamed(name) == {k \in 1..Len(Experimental) : Experimental[k].name = name}
Last(S) == CHOOSE k \in S : \A j \in S : j <= k

\* C8: with a populated molecular-mass field the record's "Molecular Weight"
\* is that value, whatever the experimental properties are, and the library
\* is asked for the molecular weight only when the field is empty.
C8_MassVerbatimAlways ==
    /\ (Populated /\ properties # NoneVal) =>
           DictGet(properties.dict, "Molecular Weight") = response.body.molecularMass
    /\ (pc = "returned" /\ "MW" \in {asked[k] : k \in 1..Len(asked)}) =>
           /\ Answered
           /\ response.body.molecularMass \in {NoneVal, Str(<<>>)}

\* C8, amended: with a populated molecular-mass field the record's
\* "Molecular Weight" is that value unless an experimental entry is itself
\* named "Molecular Weight"; then it is the number found in the last such
\* entry.  The library is asked for the molecular weight only when the field
\* is empty.
C8_MassVerbatimUnlessExperimental ==
    /\ (Populated /\ properties # NoneVal) =>
           DictGet(properties.dict, "Molecular Weight") =
               IF EntriesNamed("Molecular Weight") = {}
               THEN response.body.molecularMass
               ELSE SearchNumber(
                        Experimental[Last(EntriesNamed("Molecular Weight"))].property)
    /\ (pc = "returned" /\ "MW" \in {asked[k] : k \in 1..Len(asked)}) =>
           /\ Answered
           /\ response.body.molecularMass \in {NoneVal, Str(<<>>)}

C8_Witness ==
    /\ Populated
    /\ properties # NoneVal
    /\ EntriesNamed("Molecular Weight") # {}
    /\ DictGet(properties.dict, "Molecular Weight") # response.body.molecularMass
    /\ asked # <<>>

\* nothing but a miss of the library for a boiling or melting point stands in
\* the way of the record
NothingElseFails ==
    /\ Answered
    /\ response.body.molecularMass # Missing
    /\ response.body.experimentalProperties # Missing
    /\ \A k \in 1..Len(Experimental) : SearchNumber(Experimental[k].property) # NoneVal
    /\ response.body.molecularMass \in {NoneVal, Str(<<>>)}
           => library[casrn].MW # LibraryRaises

RequiredKeys == {"Molecular Weight", "Boiling Point", "Melting Point", "Density"}

\* C9: a library miss for the boiling or melting point neither drops the
\* record nor reaches the caller: the key then maps to the absent marker;
\* "Density" is the absent marker unless an experimental entry supplied it;
\* every record returned has the four keys.
C9_LibraryMissIsAbsentMarker ==
    pc = "returned" =>
        /\ NothingElseFails => properties # NoneVal
        /\ properties # NoneVal =>
              /\ RequiredKeys \subseteq DictKeys(properties.dict)
              /\ (EntriesNamed("Boiling Point") = {} /\ library[casrn].Tb = NoneVal)
                     => DictGet(properties.dict, "Boiling Point") = NoneVal
              /\ (EntriesNamed("Melting Point") = {} /\ library[casrn].Tm = NoneVal)
                     => DictGet(properties.dict, "Melting Point") = NoneVal
              /\ EntriesNamed("Density") = {}
                     => DictGet(properties.dict, "Density") = NoneVal

C9_Witness ==
    /\ pc = "returned"
    /\ properties # NoneVal
    /\ EntriesNamed("Boiling Point") = {}
    /\ EntriesNamed("Melting Point") # {}
    /\ library[casrn].Tb = NoneVal
    /\ DictGet(properties.dict, "Boiling Point") = NoneVal
    /\ asked = <<"Tb">>

====
